---- MODULE Spec2Model ----
(***************************************************************************)
(* Model of pokemonApi.py: the concurrent (asyncio + httpx) and the        *)
(* sequential (requests) pipelines that list pokemon names page by page,   *)
(* fetch one detail record per name and aggregate them in a dictionary.    *)
(*                                                                         *)
(* The remote API is the environment: it is fixed in the initial state     *)
(* (the item count, the status of every URL, the name field of every       *)
(* detail record), so that both pipelines of one behaviour see the same    *)
(* responses.  A caller runs the concurrent variant and then the           *)
(* sequential one, and records how each call ended.                        *)
(***************************************************************************)
EXTENDS Integers, Sequences, FiniteSets

\* ------------------------------------------------------------------ bounds
MaxItems == 3       \* items the server holds, aggregator runs
MaxNumber == 11     \* target count given to the aggregators
MaxCount == 30      \* items the server holds, name lister runs
MaxCutoff == 21     \* max_pokemons given to the name listers

\* --------------------------------------------------------- program constants
POKE_PER_PAGE == 10
POKE_DETAILS_TIMEOUT == 30
PAGE_TIMEOUT == 10
\* httpx applies a 5 second default when client.get is given no timeout
HTTPX_DEFAULT_TIMEOUT == 5
\* requests.get given no timeout waits for ever
NoTimeout == 0
\* max_pokemons = None
NoMax == -1

Statuses == {200, 404}

VARIABLES
    count,          \* server: the listing's count field
    rootStatus,     \* server: status of GET <base>
    pageStatus,     \* server: offset -> status of GET <base>/?offset=..&limit=..
    detailStatus,   \* server: name -> status of GET <base>/<name>
    detailName,     \* server: name -> the name field of that item's record
    entry,          \* "pokemons" (get_pokemons_*) or "names" (get_pokemon_names_*)
    maxPokemons,    \* the caller's argument (number / max_pokemons)
    variant,        \* "async" or "sync": the pipeline being run
    pc,             \* position of the running pipeline
    session,        \* [open, opened]: the current session object, sessions opened
    stats,          \* [requests, responses, peak] of the current run
    requested,      \* URLs requested in the current run
    nbPoke,         \* nb_poke
    offset,         \* offset (sequential loop)
    names,          \* the name list
    taskUrl,        \* coroutines handed to gather: their URLs
    taskSt,         \* their states: "pending", "inflight", "done"
    taskRes,        \* their results (empty until done)
    completed,      \* task indexes in completion order
    gathered,       \* what gather returned / the current detail record
    ins,            \* index of the insertion loop
    pokemons,       \* the result mapping
    outcome         \* variant -> how its call ended

server == <<count, rootStatus, pageStatus, detailStatus, detailName>>
input == <<entry, maxPokemons>>
tasks == <<taskUrl, taskSt, taskRes, completed>>
vars == <<count, rootStatus, pageStatus, detailStatus, detailName, entry,
          maxPokemons, variant, pc, session, stats, requested, nbPoke, offset,
          names, taskUrl, taskSt, taskRes, completed, gathered, ins, pokemons,
          outcome>>

\* ------------------------------------------------------------ data helpers
\* {} : the empty dictionary; also a task's empty result slot
EmptyDict == [f \in {} |-> 0]

Min(a, b) == IF a < b THEN a ELSE b
Max(a, b) == IF a < b THEN b ELSE a

\* the URLs the program builds
RootUrl == [kind |-> "root", key |-> 0, limit |-> 0]
PageUrl(off) == [kind |-> "page", key |-> off, limit |-> POKE_PER_PAGE]
DetailUrl(name) == [kind |-> "detail", key |-> name, limit |-> 0]

\* ------------------------------------------------------------------ server
\* GET <base>: a status and a body with the count field
RootResponse == [status |-> rootStatus, count |-> count]

\* GET <base>/?offset=o&limit=l: the names of items o+1 .. min(o+l, count)
PageResponse(url) ==
    [status |-> pageStatus[url.key],
     results |-> [i \in 1..Max(0, Min(url.limit, count - url.key)) |-> url.key + i]]

\* GET <base>/<name>: the item's record, with its own name field
DetailResponse(url) ==
    [status |-> detailStatus[url.key],
     body |-> [f \in {"name", "id"} |->
                 IF f = "name" THEN detailName[url.key] ELSE url.key]]

\* ------------------------------------------------------- pure program parts
\* nb_poke = json_obj['count'] if max_pokemons is None else max_pokemons
NbPoke(cnt, max) == IF max = NoMax THEN cnt ELSE max

\* mutant: only the pages that lie wholly below nb_poke
RECURSIVE PageUrlsTrimmed(_, _)
PageUrlsTrimmed(off, nb) ==
    IF off + POKE_PER_PAGE <= nb
    THEN <<PageUrl(off)>> \o PageUrlsTrimmed(off + POKE_PER_PAGE, nb)
    ELSE <<>>

\* offset = 0; while offset < nb_poke: append(page url); offset += POKE_PER_PAGE
RECURSIVE PageUrlsFrom(_, _)
PageUrlsFrom(off, nb) ==
    IF off < nb
    THEN <<PageUrl(off)>> \o PageUrlsFrom(off + POKE_PER_PAGE, nb)
    ELSE <<>>

\* get_pokemon_page_*: [] on a non-200 status, else the names of the results
PageNames(resp) == IF resp.status # 200 THEN <<>> ELSE resp.results

\* get_pokemon_details_*: {} on a non-200 status, else the decoded body
DetailRecord(resp) == IF resp.status # 200 THEN EmptyDict ELSE resp.body

\* the per-request timeout each call site passes (or leaves to the library)
TimeoutOf(v, kind) ==
    CASE kind = "page" -> PAGE_TIMEOUT
      [] kind = "detail" -> POKE_DETAILS_TIMEOUT
      [] kind = "root" /\ v = "async" -> HTTPX_DEFAULT_TIMEOUT
      [] OTHER -> NoTimeout


\* mutant: results in completion order
GatherAsCompleted(res, order, k) == [i \in 1..k |-> res[order[i]]]

\* asyncio.gather(*coroutines): results positionally, in submission order
Gather(res, order, k) == [i \in 1..k |-> res[i]]

\* chain.from_iterable(names_per_page)
RECURSIVE Chain(_)
Chain(seqs) == IF seqs = <<>> THEN <<>> ELSE Head(seqs) \o Chain(Tail(seqs))

\* mutant: names = page
ExtendAssign(acc, page) == page

\* names.extend(page)
Extend(acc, page) == acc \o page

\* mutant: the loop stops before a page that reaches beyond nb_poke
MorePagesTrimmed(off, nb) == off + POKE_PER_PAGE <= nb

\* the sequential loop condition: while offset < nb_poke
MorePages(off, nb) == off < nb

\* mutant: the key is the name the request URL was built from
KeyOfUrl(urlName, d) == urlName

\* poke_detail['name']: the key of the insertion (a KeyError without the field)
HasName(d) == "name" \in DOMAIN d
KeyOf(urlName, d) == d["name"]

\* pokemons[key] = poke_detail
Insert(p, k, d) == [x \in DOMAIN p \cup {k} |-> IF x = k THEN d ELSE p[x]]

\* mutant: the client is never closed
ClientLeftOpen(s) == s

\* async with httpx.AsyncClient() as client: entering opens one client
ClientEnter(s) == [open |-> TRUE, opened |-> s.opened + 1]
\* ... and leaving the block, by return or by exception, closes it
ClientExit(s) == [s EXCEPT !.open = FALSE]
\* requests.get(url): a Session of its own for this one call
RequestsGetEnter(s) == [open |-> TRUE, opened |-> s.opened + 1]
RequestsGetExit(s) == [s EXCEPT !.open = FALSE]

\* mutant: each coroutine is awaited in turn
TaskStepAwaitEach(st, i) ==
    IF st[i] = "pending"
    THEN IF \A j \in 1..(i - 1) : st[j] = "done" THEN "start" ELSE "wait"
    ELSE IF st[i] = "inflight" THEN "respond" ELSE "wait"

\* mutant: the join resumes as soon as every task has started
JoinWhenStarted(st) == \A j \in DOMAIN st : st[j] # "pending"

\* the event loop runs the first step of every task gather scheduled, in
\* submission order, before it polls for any response
TaskStep(st, i) ==
    IF st[i] = "pending"
    THEN IF \A j \in 1..(i - 1) : st[j] # "pending" THEN "start" ELSE "wait"
    ELSE IF st[i] = "inflight" /\ \A j \in DOMAIN st : st[j] # "pending"
         THEN "respond" ELSE "wait"
\* await asyncio.gather(...) resumes once every task is done
JoinReady(st) == \A j \in DOMAIN st : st[j] = "done"

\* requests awaiting their response
InFlightOf(p, st) ==
    (IF p \in {"root", "page", "detail"} THEN 1 ELSE 0)
    + Cardinality({i \in DOMAIN st : st[i] = "inflight"})
InFlight == InFlightOf(pc, taskSt)

NoOutcome == [kind |-> "none", error |-> "", names |-> <<>>, pokemons |-> EmptyDict]
NoStats == [requests |-> 0, responses |-> 0, peak |-> 0]
NoSession == [open |-> FALSE, opened |-> 0]

\* ------------------------------------------------------------------- Init
PageOffsets(nb) == {o \in 0..(nb - 1) : o % POKE_PER_PAGE = 0}

InitRun ==
    /\ variant = "async"
    /\ pc = "idle"
    /\ session = NoSession
    /\ stats = NoStats
    /\ requested = {}
    /\ nbPoke = 0
    /\ offset = 0
    /\ names = <<>>
    /\ taskUrl = <<>>
    /\ taskSt = <<>>
    /\ taskRes = <<>>
    /\ completed = <<>>
    /\ gathered = <<>>
    /\ ins = 1
    /\ pokemons = EmptyDict
    /\ outcome = [v \in {"async", "sync"} |-> NoOutcome]

\* the aggregators, called with a target count
InitPokemons ==
    /\ entry = "pokemons"
    /\ maxPokemons \in 0..MaxNumber
    /\ count \in 0..MaxItems
    /\ rootStatus \in Statuses
    /\ pageStatus \in [PageOffsets(NbPoke(count, maxPokemons)) -> Statuses]
    /\ detailStatus \in [1..count -> Statuses]
    /\ detailName \in [1..count -> 1..count]
    \* the body of a non-200 response is never read: one body stands for all
    /\ \A n \in 1..count : detailStatus[n] # 200 => detailName[n] = n
    /\ InitRun

\* the name listers, called with a cutoff or with None
InitNames ==
    /\ entry = "names"
    /\ maxPokemons \in {NoMax} \cup 0..MaxCutoff
    /\ count \in 0..MaxCount
    /\ rootStatus \in Statuses
    /\ pageStatus \in [PageOffsets(NbPoke(count, maxPokemons)) -> Statuses]
    /\ detailStatus = [n \in 1..count |-> 200]
    /\ detailName = [n \in 1..count |-> n]
    /\ InitRun

\* ---------------------------------------------------------- shared steps
\* a request goes out through the current session
Issue(url, p, st) ==
    /\ requested' = requested \cup {url}
    /\ stats' = [stats EXCEPT !.requests = @ + 1,
                              !.peak = Max(@, InFlightOf(p, st))]

Received == stats' = [stats EXCEPT !.responses = @ + 1]

NewStage == stats' = [stats EXCEPT !.peak = 0]

ClearTasks ==
    /\ taskUrl' = <<>>
    /\ taskSt' = <<>>
    /\ taskRes' = <<>>

\* the call ends: it returns value, or raises error
Finish(kind, error, nm, value) ==
    /\ pc' = kind
    /\ outcome' = [outcome EXCEPT ![variant] =
                     [kind |-> kind, error |-> error, names |-> nm, pokemons |-> value]]
    /\ ClearTasks
    /\ completed' = <<>>
    /\ gathered' = <<>>


\* hand coroutines for these URLs to gather: every task is scheduled
Schedule(urls) ==
    /\ taskUrl' = urls
    /\ taskSt' = [i \in 1..Len(urls) |-> "pending"]
    /\ taskRes' = [i \in 1..Len(urls) |-> EmptyDict]
    /\ completed' = <<>>

\* ----------------------------------------------------- concurrent pipeline
\* get_pokemons_async: pokemons = {}; async with httpx.AsyncClient() as client
\* (get_pokemon_names_async called alone is handed an open client)
AsyncCall ==
    /\ variant = "async" /\ pc = "idle"
    /\ pc' = "begin"
    /\ session' = ClientEnter(session)
    /\ pokemons' = EmptyDict
    /\ UNCHANGED <<server, input, variant, stats, requested, nbPoke, offset,
                   names, tasks, gathered, ins, outcome>>

\* get_pokemon_names_async: response = await client.get(POKEMON_BASE_URL)
AsyncRootGet ==
    /\ variant = "async" /\ pc = "begin"
    /\ pc' = "root"
    /\ Issue(RootUrl, "root", taskSt)
    /\ UNCHANGED <<server, input, variant, session, nbPoke, offset, names,
                   tasks, gathered, ins, pokemons, outcome>>

\* the root response: [] on a non-200 status, else one coroutine per page,
\* all handed to gather
AsyncRootResponse ==
    /\ variant = "async" /\ pc = "root"
    /\ IF RootResponse.status # 200
       THEN /\ pc' = "named"
            /\ names' = <<>>
            /\ UNCHANGED <<nbPoke, tasks>>
       ELSE /\ pc' = "pages"
            /\ nbPoke' = NbPoke(RootResponse.count, maxPokemons)
            /\ Schedule(PageUrlsFrom(0, nbPoke'))
            /\ UNCHANGED names
    /\ stats' = [stats EXCEPT !.responses = @ + 1, !.peak = 0]
    /\ UNCHANGED <<server, input, variant, session, requested, offset,
                   gathered, ins, pokemons, outcome>>

\* the first step of a page or detail coroutine: print, then client.get(url)
TaskStart(i) ==
    /\ variant = "async" /\ pc \in {"pages", "details"}
    /\ TaskStep(taskSt, i) = "start"
    /\ taskSt' = [taskSt EXCEPT ![i] = "inflight"]
    /\ Issue(taskUrl[i], pc, taskSt')
    /\ UNCHANGED <<server, input, variant, pc, session, nbPoke, offset, names,
                   taskUrl, taskRes, completed, gathered, ins, pokemons, outcome>>

\* a response arrives, in any order: the coroutine returns its result
TaskResponse(i) ==
    /\ variant = "async" /\ pc \in {"pages", "details"}
    /\ TaskStep(taskSt, i) = "respond"
    /\ taskSt' = [taskSt EXCEPT ![i] = "done"]
    /\ taskRes' = [taskRes EXCEPT ![i] =
                     IF pc = "pages"
                     THEN PageNames(PageResponse(taskUrl[i]))
                     ELSE DetailRecord(DetailResponse(taskUrl[i]))]
    /\ completed' = Append(completed, i)
    /\ Received
    /\ UNCHANGED <<server, input, variant, pc, session, requested, nbPoke,
                   offset, names, taskUrl, gathered, ins, pokemons, outcome>>

\* names_per_page = await asyncio.gather(*coroutines); return list(chain(...))
AsyncJoinPages ==
    /\ variant = "async" /\ pc = "pages"
    /\ JoinReady(taskSt)
    /\ names' = Chain(Gather(taskRes, completed, Len(taskUrl)))
    /\ pc' = "named"
    /\ ClearTasks
    /\ UNCHANGED completed
    /\ NewStage
    /\ UNCHANGED <<server, input, variant, session, requested, nbPoke, offset,
                   gathered, ins, pokemons, outcome>>

\* get_pokemon_names_async returns to a caller that asked for the names only
AsyncNamesReturn ==
    /\ variant = "async" /\ pc = "named" /\ entry = "names"
    /\ Finish("returned", "", names, EmptyDict)
    /\ session' = ClientExit(session)
    /\ UNCHANGED <<server, input, variant, stats, requested, nbPoke, offset,
                   names, ins, pokemons>>

\* get_pokemons_async: one detail coroutine per name, all handed to gather
AsyncGatherDetails ==
    /\ variant = "async" /\ pc = "named" /\ entry = "pokemons"
    /\ Schedule([i \in 1..Len(names) |-> DetailUrl(names[i])])
    /\ pc' = "details"
    /\ UNCHANGED <<server, input, variant, session, stats, requested, nbPoke,
                   offset, names, gathered, ins, pokemons, outcome>>

\* for poke_detail in await asyncio.gather(*coroutines)
AsyncJoinDetails ==
    /\ variant = "async" /\ pc = "details"
    /\ JoinReady(taskSt)
    /\ gathered' = Gather(taskRes, completed, Len(taskUrl))
    /\ ins' = 1
    /\ pc' = "insert"
    /\ ClearTasks
    /\ UNCHANGED completed
    /\ UNCHANGED <<server, input, variant, session, stats, requested, nbPoke,
                   offset, names, pokemons, outcome>>

\* pokemons[poke_detail['name']] = poke_detail; a record without the field
\* raises KeyError, which leaves the async with block and the function
AsyncInsert ==
    /\ variant = "async" /\ pc = "insert"
    /\ ins <= Len(gathered)
    /\ IF HasName(gathered[ins])
       THEN /\ pokemons' = Insert(pokemons, KeyOf(names[ins], gathered[ins]),
                                  gathered[ins])
            /\ ins' = ins + 1
            /\ UNCHANGED <<pc, session, tasks, gathered, outcome>>
       ELSE /\ Finish("raised", "KeyError", names, EmptyDict)
            /\ session' = ClientExit(session)
            /\ UNCHANGED <<ins, pokemons>>
    /\ UNCHANGED <<server, input, variant, stats, requested, nbPoke, offset,
                   names>>

\* the loop is over: leave the async with block, return pokemons
AsyncReturn ==
    /\ variant = "async" /\ pc = "insert"
    /\ ins > Len(gathered)
    /\ Finish("returned", "", names, pokemons)
    /\ session' = ClientExit(session)
    /\ UNCHANGED <<server, input, variant, stats, requested, nbPoke, offset,
                   names, ins, pokemons>>

\* a request in flight exceeds its timeout: httpx raises, nothing catches it,
\* the exception leaves gather, the async with block and the function
AsyncTimeout ==
    /\ variant = "async"
    /\ \/ pc = "root" /\ TimeoutOf(variant, "root") # NoTimeout
       \/ /\ pc \in {"pages", "details"}
          /\ \E i \in DOMAIN taskSt :
                 /\ taskSt[i] = "inflight"
                 /\ TimeoutOf(variant, taskUrl[i].kind) # NoTimeout
    /\ Finish("raised", "Timeout", names, EmptyDict)
    /\ session' = ClientExit(session)
    /\ UNCHANGED <<server, input, variant, stats, requested, nbPoke, offset,
                   names, ins, pokemons>>


\* ----------------------------------------------------- sequential pipeline
\* the caller goes on to the sequential variant with the same argument:
\* get_pokemons_sync: pokemons = {} (or get_pokemon_names_sync called alone)
SyncCall ==
    /\ variant = "async" /\ pc \in {"returned", "raised"}
    /\ variant' = "sync"
    /\ pc' = "begin"
    /\ session' = NoSession
    /\ stats' = NoStats
    /\ requested' = {}
    /\ nbPoke' = 0
    /\ offset' = 0
    /\ names' = <<>>
    /\ ins' = 1
    /\ pokemons' = EmptyDict
    /\ UNCHANGED <<server, input, tasks, gathered, outcome>>

\* get_pokemon_names_sync: response = requests.get(POKEMON_BASE_URL)
SyncRootGet ==
    /\ variant = "sync" /\ pc = "begin"
    /\ pc' = "root"
    /\ session' = RequestsGetEnter(session)
    /\ Issue(RootUrl, "root", taskSt)
    /\ UNCHANGED <<server, input, variant, nbPoke, offset, names, tasks,
                   gathered, ins, pokemons, outcome>>

\* the root response: [] on a non-200 status, else names = [], offset = 0
SyncRootResponse ==
    /\ variant = "sync" /\ pc = "root"
    /\ session' = RequestsGetExit(session)
    /\ Received
    /\ names' = <<>>
    /\ IF RootResponse.status # 200
       THEN /\ pc' = "named"
            /\ UNCHANGED <<nbPoke, offset>>
       ELSE /\ pc' = "loop"
            /\ nbPoke' = NbPoke(RootResponse.count, maxPokemons)
            /\ offset' = 0
    /\ UNCHANGED <<server, input, variant, requested, tasks, gathered, ins,
                   pokemons, outcome>>

\* while offset < nb_poke: get_pokemon_page_sync(url): requests.get(url, timeout=10)
SyncPageGet ==
    /\ variant = "sync" /\ pc = "loop"
    /\ MorePages(offset, nbPoke)
    /\ pc' = "page"
    /\ session' = RequestsGetEnter(session)
    /\ Issue(PageUrl(offset), "page", taskSt)
    /\ UNCHANGED <<server, input, variant, nbPoke, offset, names, tasks,
                   gathered, ins, pokemons, outcome>>

\* names.extend(page names, [] on a non-200 status); offset += POKE_PER_PAGE
SyncPageResponse ==
    /\ variant = "sync" /\ pc = "page"
    /\ session' = RequestsGetExit(session)
    /\ Received
    /\ names' = Extend(names, PageNames(PageResponse(PageUrl(offset))))
    /\ offset' = offset + POKE_PER_PAGE
    /\ pc' = "loop"
    /\ UNCHANGED <<server, input, variant, requested, nbPoke, tasks, gathered,
                   ins, pokemons, outcome>>

\* the loop is over: return names
SyncLoopExit ==
    /\ variant = "sync" /\ pc = "loop"
    /\ ~MorePages(offset, nbPoke)
    /\ pc' = "named"
    /\ UNCHANGED <<server, input, variant, session, stats, requested, nbPoke,
                   offset, names, tasks, gathered, ins, pokemons, outcome>>

\* get_pokemon_names_sync returns to a caller that asked for the names only
SyncNamesReturn ==
    /\ variant = "sync" /\ pc = "named" /\ entry = "names"
    /\ Finish("returned", "", names, EmptyDict)
    /\ UNCHANGED <<server, input, variant, session, stats, requested, nbPoke,
                   offset, names, ins, pokemons>>

\* for name in names: get_pokemon_details_sync(url): requests.get(url, timeout=30)
SyncDetailGet ==
    /\ variant = "sync" /\ pc = "named" /\ entry = "pokemons"
    /\ ins <= Len(names)
    /\ pc' = "detail"
    /\ session' = RequestsGetEnter(session)
    /\ Issue(DetailUrl(names[ins]), "detail", taskSt)
    /\ UNCHANGED <<server, input, variant, nbPoke, offset, names, tasks,
                   gathered, ins, pokemons, outcome>>

\* poke_detail = {} or the body; pokemons[poke_detail['name']] = poke_detail,
\* a KeyError when the record has no name field
SyncDetailResponse ==
    /\ variant = "sync" /\ pc = "detail"
    /\ session' = RequestsGetExit(session)
    /\ Received
    /\ LET poke_detail == DetailRecord(DetailResponse(DetailUrl(names[ins])))
       IN  IF HasName(poke_detail)
           THEN /\ pokemons' = Insert(pokemons, KeyOf(names[ins], poke_detail),
                                      poke_detail)
                /\ ins' = ins + 1
                /\ pc' = "named"
                /\ UNCHANGED <<tasks, gathered, outcome>>
           ELSE /\ Finish("raised", "KeyError", names, EmptyDict)
                /\ UNCHANGED <<ins, pokemons>>
    /\ UNCHANGED <<server, input, variant, requested, nbPoke, offset, names>>

\* return pokemons
SyncReturn ==
    /\ variant = "sync" /\ pc = "named" /\ entry = "pokemons"
    /\ ins > Len(names)
    /\ Finish("returned", "", names, pokemons)
    /\ UNCHANGED <<server, input, variant, session, stats, requested, nbPoke,
                   offset, names, ins, pokemons>>

\* the request in flight exceeds its timeout: requests raises, nothing
\* catches it; a request without a timeout has no such step and waits
SyncTimeout ==
    /\ variant = "sync"
    /\ pc \in {"root", "page", "detail"}
    /\ TimeoutOf(variant, pc) # NoTimeout
    /\ session' = RequestsGetExit(session)
    /\ Finish("raised", "Timeout", names, EmptyDict)
    /\ UNCHANGED <<server, input, variant, stats, requested, nbPoke, offset,
                   names, ins, pokemons>>

\* ------------------------------------------------------------------- Next
NamesNext ==
    \/ AsyncCall
    \/ AsyncRootGet
    \/ AsyncRootResponse
    \/ \E i \in DOMAIN taskSt : TaskStart(i)
    \/ \E i \in DOMAIN taskSt : TaskResponse(i)
    \/ AsyncJoinPages
    \/ AsyncTimeout
    \/ SyncCall
    \/ SyncRootGet
    \/ SyncRootResponse
    \/ SyncPageGet
    \/ SyncPageResponse
    \/ SyncLoopExit
    \/ SyncTimeout

Next ==
    \/ NamesNext
    \/ AsyncNamesReturn
    \/ SyncNamesReturn
    \/ AsyncGatherDetails
    \/ AsyncJoinDetails
    \/ AsyncInsert
    \/ AsyncReturn
    \/ SyncDetailGet
    \/ SyncDetailResponse
    \/ SyncReturn

Init == InitPokemons \/ InitNames

Spec == Init /\ [][Next]_vars


\* ================================================================ claims
Variants == {"async", "sync"}
Ended(v) == outcome[v].kind # "none"
Answered(v) == Ended(v) /\ outcome[v].error # "Timeout"
RunEnded == pc \in {"returned", "raised"}

\* the record the server holds for one listed name, as the program decodes it
RecordOf(name) == DetailRecord(DetailResponse(DetailUrl(name)))
\* the names the server lists in one page window
WindowOf(off) == PageResponse(PageUrl(off)).results


Cutoff == IF maxPokemons = NoMax THEN count ELSE maxPokemons
CeilDiv(a, b) == (a + b - 1) \div b
PagesCovering(n) == CeilDiv(n, POKE_PER_PAGE)

\* the successful pages' names, page after page, by ascending page index
RECURSIVE PagesInOrder(_, _)
PagesInOrder(k, n) ==
    IF k >= n THEN <<>>
    ELSE (IF pageStatus[k * POKE_PER_PAGE] = 200
          THEN WindowOf(k * POKE_PER_PAGE) ELSE <<>>)
         \o PagesInOrder(k + 1, n)

PageRequests == {u \in requested : u.kind = "page"}
DetailRequests == {u \in requested : u.kind = "detail"}

\* the name lister of the running variant has just produced its list from a
\* successful root listing
Listed == pc = "named" /\ rootStatus = 200 /\ DetailRequests = {}

\* C1: when a detail request returns a non-200 status, the aggregator does not
\* raise: it returns a mapping that holds the record of every request that
\* succeeded, every detail request of the name list having been made.
C1_FailedDetailDegrades ==
    \A v \in Variants :
        (/\ entry = "pokemons"
         /\ Answered(v)
         /\ \E i \in 1..Len(outcome[v].names) :
                detailStatus[outcome[v].names[i]] # 200)
        => /\ outcome[v].kind = "returned"
           /\ \A i \in 1..Len(outcome[v].names) :
                  detailStatus[outcome[v].names[i]] = 200
                  => \E k \in DOMAIN outcome[v].pokemons :
                         outcome[v].pokemons[k] = RecordOf(outcome[v].names[i])

\* C2: in the concurrent name lister, whatever order the page requests
\* complete in, the list is the pages' names concatenated in ascending offset
\* order, so every name of page i precedes every name of page j for i < j.
C2_PageOrderPreserved ==
    (variant = "async" /\ Listed)
    => /\ names = PagesInOrder(0, PagesCovering(Cutoff))
       /\ \A a, b \in 1..Len(names) :
              a < b => (names[a] - 1) \div POKE_PER_PAGE
                       <= (names[b] - 1) \div POKE_PER_PAGE

\* C2 witness: the second page completed before the first, both hold names
C2_Witness ==
    /\ variant = "async" /\ Listed
    /\ Len(completed) >= 2 /\ completed[1] = 2 /\ completed[2] = 1
    /\ pageStatus[0] = 200 /\ pageStatus[POKE_PER_PAGE] = 200
    /\ Len(names) > POKE_PER_PAGE

\* C3: same server, same argument: both variants end the same way, with the
\* same name list and the same result mapping (or the same fault), however
\* the concurrent requests interleave.
C3_SameOutcome ==
    (Answered("async") /\ Answered("sync")) => outcome["async"] = outcome["sync"]

\* C3 witness: both aggregators returned a mapping of at least two records
C3_Witness ==
    /\ Answered("async") /\ Answered("sync")
    /\ outcome["sync"].kind = "returned"
    /\ Cardinality(DOMAIN outcome["sync"].pokemons) >= 2

\* C4: in both name listers a page that returns a non-200 status contributes
\* no name and stops nothing: every page of the range is requested and
\* answered, and the successful pages' names are listed in page order.
C4_FailedPageSkipped ==
    Listed
    => /\ \A o \in PageOffsets(Cutoff) : PageUrl(o) \in requested
       /\ stats.responses = stats.requests
       /\ \A o \in PageOffsets(Cutoff) :
              SelectSeq(names, LAMBDA n : n > o /\ n <= o + POKE_PER_PAGE)
              = IF pageStatus[o] = 200 THEN WindowOf(o) ELSE <<>>
       /\ \A a, b \in 1..Len(names) : a < b => names[a] < names[b]

\* C4 witness: the first page failed, a later page gave its names
C4_Witness ==
    /\ Listed /\ variant = "sync"
    /\ Cutoff > POKE_PER_PAGE
    /\ pageStatus[0] # 200 /\ pageStatus[POKE_PER_PAGE] = 200
    /\ names # <<>>


\* C5: for a cutoff N (max_pokemons, or the listing's count when None) both
\* name listers request exactly the pages at offsets 0, 10, 20, ... below N,
\* each once and with limit 10: ceil(N/10) pages; the last page is not
\* trimmed: with every page successful and full the list holds
\* ceil(N/10)*10 names, which is N when N is a multiple of 10.
C5_PagesCoverCutoff ==
    Listed
    => /\ PageRequests =
              {[kind |-> "page", key |-> k * POKE_PER_PAGE, limit |-> POKE_PER_PAGE] :
                   k \in 0..(PagesCovering(Cutoff) - 1)}
       /\ \A u \in PageRequests : u.key < Cutoff
       /\ stats.requests = 1 + PagesCovering(Cutoff)
       /\ (/\ \A o \in PageOffsets(Cutoff) : pageStatus[o] = 200
           /\ count >= PagesCovering(Cutoff) * POKE_PER_PAGE)
          => /\ Len(names) = PagesCovering(Cutoff) * POKE_PER_PAGE
             /\ (Cutoff % POKE_PER_PAGE = 0 => Len(names) = Cutoff)
             /\ (Cutoff % POKE_PER_PAGE # 0 => Len(names) > Cutoff)

\* C5 witness: a cutoff of 15 gave two full pages, 20 names
C5_Witness ==
    /\ Listed
    /\ maxPokemons = POKE_PER_PAGE + 5
    /\ Len(names) = 2 * POKE_PER_PAGE

\* C6 as stated: in a returned mapping result[d['name']] == d for every
\* record d fetched in the run, also when two names gave records with the
\* same name field.
C6_RoundTrip ==
    \A v \in Variants :
        (entry = "pokemons" /\ outcome[v].kind = "returned")
        => \A i \in 1..Len(outcome[v].names) :
               LET d == RecordOf(outcome[v].names[i])
               IN  /\ d["name"] \in DOMAIN outcome[v].pokemons
                   /\ outcome[v].pokemons[d["name"]] = d

\* the last position of the name list whose record carries this name field
LastWith(nm, key) ==
    CHOOSE i \in 1..Len(nm) :
        /\ RecordOf(nm[i])["name"] = key
        /\ \A j \in (i + 1)..Len(nm) : RecordOf(nm[j])["name"] # key

\* C6 amended: in a returned mapping every key is the name field of its own
\* value, and for every record d fetched result[d['name']] is the record
\* fetched last (in name-list order) among those with d's name field: it is
\* d itself whenever no later record carries the same name field.
C6_RoundTripLastWins ==
    \A v \in Variants :
        (entry = "pokemons" /\ outcome[v].kind = "returned")
        => LET nm == outcome[v].names
               res == outcome[v].pokemons
           IN  /\ \A k \in DOMAIN res : res[k]["name"] = k
               /\ DOMAIN res = {RecordOf(nm[i])["name"] : i \in 1..Len(nm)}
               /\ \A i \in 1..Len(nm) :
                      LET d == RecordOf(nm[i])
                      IN  /\ res[d["name"]] = RecordOf(nm[LastWith(nm, d["name"])])
                          /\ (\A j \in (i + 1)..Len(nm) :
                                  RecordOf(nm[j])["name"] # d["name"])
                             => res[d["name"]] = d

\* C6 witness: a returned mapping keyed by a record's own name field where
\* the request URL was built from another name
C6_Witness ==
    /\ entry = "pokemons" /\ outcome["sync"].kind = "returned"
    /\ \E i \in 1..Len(outcome["sync"].names) :
           LET n == outcome["sync"].names[i]
           IN  /\ detailName[n] # n
               /\ outcome["sync"].pokemons[detailName[n]]["id"] = n

\* C7 as stated: in both aggregators every request of a run goes through one
\* session, opened before the first request and closed after the last.
C7_OneSessionPerRun ==
    entry = "pokemons"
    => /\ session.opened <= 1
       /\ (InFlight > 0 => session.open)
       /\ (RunEnded => ~session.open)

\* C7 amended: the concurrent aggregator makes every request of a run through
\* one client, opened before the first request and closed when the run ends;
\* the sequential aggregator makes each request through a session of its own,
\* open only while that request is in flight.  In both, no request is in
\* flight outside an open session and no session is open when the run ends.
C7_SessionDiscipline ==
    entry = "pokemons"
    => /\ (InFlight > 0 => session.open)
       /\ (RunEnded => ~session.open)
       /\ variant = "async"
          => /\ session.opened <= 1
             /\ (stats.requests > 0 => session.opened = 1)
             /\ (~RunEnded /\ pc # "idle" => session.open)
       /\ variant = "sync"
          => /\ session.opened = stats.requests
             /\ (session.open <=> InFlight = 1)

\* C7 witness: the concurrent run made several requests through its one
\* client and closed it; the sequential run then ended after several
\* requests, each with its own session
C7_Witness ==
    /\ entry = "pokemons" /\ variant = "sync" /\ RunEnded
    /\ outcome["async"].kind = "returned"
    /\ Len(outcome["async"].names) >= 2
    /\ stats.requests >= 4 /\ session.opened = stats.requests
    /\ ~session.open


\* C8: in the concurrent pipeline every request of a stage is issued before
\* any response of the stage is consumed, so all K requests of the stage are
\* in flight together before the stage is joined; in the sequential pipeline
\* at most one request is ever in flight.
C8_FanOut ==
    /\ variant = "async"
       => /\ (\E i \in DOMAIN taskSt : taskSt[i] = "done")
             => \A j \in DOMAIN taskSt : taskSt[j] # "pending"
          /\ (pc \in {"pages", "details"} /\ JoinReady(taskSt))
             => stats.peak = Len(taskUrl)
    /\ variant = "sync" => InFlight <= 1 /\ stats.peak <= 1

\* C8 witness: every detail request of the stage (three of them) is in
\* flight at once
C8_Witness ==
    /\ variant = "async" /\ pc = "details"
    /\ Cardinality(PageRequests) >= 2
    /\ Len(taskUrl) >= 3
    /\ InFlight = Len(taskUrl)
    /\ stats.responses = 1 + Cardinality(PageRequests)

\* the mapping built from the first k records of the name list, in order
RECURSIVE InsertedUpTo(_, _)
InsertedUpTo(nm, k) ==
    IF k = 0 THEN EmptyDict
    ELSE Insert(InsertedUpTo(nm, k - 1), RecordOf(nm[k])["name"], RecordOf(nm[k]))

\* C9: in the concurrent pipeline no detail request is issued before the
\* root request and every page request have completed, no record is inserted
\* before every detail request has completed, and the records are inserted
\* in name-list order.
C9_StageJoin ==
    variant = "async"
    => /\ DetailRequests # {}
          => /\ \A o \in PageOffsets(Cutoff) : PageUrl(o) \in requested
             /\ stats.responses >= 1 + Cardinality(PageRequests)
       /\ pc = "insert"
          => /\ stats.responses = stats.requests
             /\ stats.requests = 1 + Cardinality(PageRequests) + Len(names)
             /\ Len(gathered) = Len(names)
             /\ \A j \in 1..Len(names) : gathered[j] = RecordOf(names[j])
             /\ pokemons = InsertedUpTo(names, ins - 1)
       /\ (pc # "insert" /\ ~RunEnded) => DOMAIN pokemons = {}

\* C9 witness: the second detail request completed first, and the first
\* records are in the mapping
C9_Witness ==
    /\ variant = "async" /\ pc = "insert"
    /\ Len(completed) >= 2 /\ completed[1] = 2
    /\ ins = 3
    /\ Cardinality(DOMAIN pokemons) = 2

\* the kinds of the requests in flight
InFlightKinds ==
    (IF pc \in {"root", "page", "detail"} THEN {pc} ELSE {})
    \cup {taskUrl[i].kind : i \in {j \in DOMAIN taskSt : taskSt[j] = "inflight"}}

\* C10: every request has a fixed timeout, a request that exceeds it degrades
\* to an empty result, and so every run returns to its caller.
C10_TimeoutsDegrade ==
    /\ \A k \in InFlightKinds : TimeoutOf(variant, k) # NoTimeout
    /\ \A v \in Variants : outcome[v].error # "Timeout"

\* C10, its first half alone: no request waits without a timeout
C10_EveryRequestBounded ==
    \A k \in InFlightKinds : TimeoutOf(variant, k) # NoTimeout

\* C10, its second half alone: a timeout never ends a run with a fault
C10_TimeoutNeverRaises ==
    \A v \in Variants : outcome[v].error # "Timeout"

====
